---- MODULE Spec2Model ----
(***************************************************************************)
(* Model of big-little-solver: the deferred-acceptance solver              *)
(* (galeshapely.py), the constraint formulations and the instability       *)
(* detector (biglittlematcher.py).                                         *)
(***************************************************************************)
EXTENDS Integers, Sequences, FiniteSets, TLC

\* Largest number of participants on one side of an enumerated instance.
MaxSide == 2

VARIABLES
    proposers,         \* GaleShapley.proposers: keys of proposers_prefs, in dict order
    proposers_prefs,   \* GaleShapley.proposers_prefs: proposer -> list of receivers
    receivers_prefs,   \* GaleShapley.receivers_prefs: receiver -> list of proposers
    free_proposers,    \* match(): the pending queue
    current_matches,   \* match(): dict receiver -> proposer, as its item list
    next_proposals,    \* match(): proposer -> cursor into its list
    pc,                \* "loop" while match() runs, "done" once it has returned
    result,            \* the list match() returns
    in_queue_order,    \* history: every iteration so far took the head of the queue
    variant,           \* BigLittleMatcher: "smp", "smt" or "smti", the model built
    bigs,              \* BigLittleMatcher.bigs: its keys, in dict order
    littles,           \* BigLittleMatcher.littles: its keys, in dict order
    big_prefs,         \* BigLittleMatcher.big_prefs: big -> list, or big -> little -> rank
    little_prefs,      \* BigLittleMatcher.little_prefs
    x,                 \* BigLittleMatcher.x: the keys (b, l) of the decision variables
    mpc,               \* "new", "built", "solved", "failed", "given", "checked"
    matches,           \* the list solve() returns, or the one given to the detector
    instabilities,     \* the list check_instabilities returns
    big_max,           \* BigLittleMatcher.bigs: big -> its 'max', for the bigs that have one
    little_max,        \* BigLittleMatcher.littles: little -> its 'max'
    enforce_exactly_one,   \* argument of build_model_optimize
    preference_weight,     \* argument of build_model_optimize, in WeightSteps-ths
    scores             \* BigLittleMatcher.scores: (b, l) -> score, in WeightSteps-ths

gs_vars == <<proposers, proposers_prefs, receivers_prefs, free_proposers,
             current_matches, next_proposals, pc, result, in_queue_order>>

opt_inputs == <<big_max, little_max, enforce_exactly_one, preference_weight>>

bl_vars == <<variant, bigs, littles, big_prefs, little_prefs, x, mpc, matches,
             instabilities, opt_inputs, scores>>

vars == <<gs_vars, bl_vars>>

----------------------------------------------------------------------------
\* Sequences and insertion-ordered dicts

Range(s) == {s[i] : i \in DOMAIN s}

Perms(S) == {s \in [1..Cardinality(S) -> S] : Range(s) = S}

\* list.index(e): 0-based position of the first occurrence
IndexOf(s, e) == (CHOOSE i \in DOMAIN s : s[i] = e /\ \A j \in 1..(i-1) : s[j] # e) - 1

\* 0-based position of the last occurrence: the rank that
\* {e: rank for rank, e in enumerate(s)} keeps for e
LastIndexOf(s, e) ==
    (CHOOSE i \in DOMAIN s : s[i] = e /\ \A j \in (i+1)..Len(s) : s[j] # e) - 1

\* list.pop(i) leaves this list (i is 1-based here)
RemoveAt(s, i) == [j \in 1..(Len(s) - 1) |-> IF j < i THEN s[j] ELSE s[j + 1]]

DictHas(d, k) == \E i \in DOMAIN d : d[i][1] = k

DictGet(d, k) == d[CHOOSE i \in DOMAIN d : d[i][1] = k][2]

\* d[k] = v: an existing key keeps its place, a new key goes last
DictSet(d, k, v) ==
    IF DictHas(d, k)
    THEN [i \in DOMAIN d |-> IF d[i][1] = k THEN <<k, v>> ELSE d[i]]
    ELSE Append(d, <<k, v>>)

----------------------------------------------------------------------------
\* Participants and the example instance of app.py

ProposerNames == <<"Ishaan", "Cindy", "Thomas">>
ReceiverNames == <<"Swapneel", "Zora", "Kevin">>

ExampleProposerPrefs ==
    [p \in {"Ishaan", "Cindy", "Thomas"} |->
        CASE p = "Ishaan" -> <<"Swapneel", "Zora", "Kevin">>
          [] p = "Cindy"  -> <<"Kevin", "Swapneel", "Zora">>
          [] p = "Thomas" -> <<"Zora", "Kevin", "Swapneel">>]

ExampleReceiverPrefs ==
    [r \in {"Swapneel", "Zora", "Kevin"} |->
        CASE r = "Swapneel" -> <<"Thomas", "Ishaan", "Cindy">>
          [] r = "Zora"     -> <<"Cindy", "Thomas", "Ishaan">>
          [] r = "Kevin"    -> <<"Ishaan", "Cindy", "Thomas">>]

----------------------------------------------------------------------------
\* GaleShapley (galeshapely.py)

\* __init__: receiver -> proposer -> 0-based rank
receivers_rankings(rp) ==
    [r \in DOMAIN rp |-> [p \in Range(rp[r]) |-> LastIndexOf(rp[r], p)]]

ReceiverPrefers_Reversed(rk, receiver, proposer, current_proposer) ==
    rk[receiver][proposer] > rk[receiver][current_proposer]

ReceiverPrefers_Always(rk, receiver, proposer, current_proposer) ==
    rk[receiver][proposer] # rk[receiver][current_proposer]

\* the receiver's comparison of a new proposer with the one it holds
ReceiverPrefers(rk, receiver, proposer, current_proposer) ==
    rk[receiver][proposer] < rk[receiver][current_proposer]

AdvanceCursor_Stuck(np, proposer) == np

\* next_proposals[proposer] += 1
AdvanceCursor(np, proposer) == [np EXCEPT ![proposer] = @ + 1]

Exhausted_OneEarly(pp, np, proposer) == np[proposer] + 1 >= Len(pp[proposer])

\* line 28: next_proposals[proposer] >= len(self.proposers_prefs[proposer])
Exhausted(pp, np, proposer) == np[proposer] >= Len(pp[proposer])

NextReceiver_FromWorst(pp, np, proposer) ==
    pp[proposer][Len(pp[proposer]) - np[proposer]]

\* self.proposers_prefs[proposer][next_proposals[proposer]]
NextReceiver(pp, np, proposer) == pp[proposer][np[proposer] + 1]

\* One iteration of the while loop, taking the proposer at place i of the
\* queue (the code pops place 1).  st = [free, cm, np].
LoopBody(pp, rk, st, i) ==
    LET proposer == st.free[i]
        rest     == RemoveAt(st.free, i)
    IN  IF Exhausted(pp, st.np, proposer)
        THEN [st EXCEPT !.free = rest]
        ELSE LET receiver == NextReceiver(pp, st.np, proposer)
                 np2      == AdvanceCursor(st.np, proposer)
             IN  IF ~DictHas(st.cm, receiver)
                 THEN [free |-> rest,
                       cm   |-> DictSet(st.cm, receiver, proposer),
                       np   |-> np2]
                 ELSE LET current_proposer == DictGet(st.cm, receiver)
                      IN  IF ReceiverPrefers(rk, receiver, proposer, current_proposer)
                          THEN [free |-> Append(rest, current_proposer),
                                cm   |-> DictSet(st.cm, receiver, proposer),
                                np   |-> np2]
                          ELSE [free |-> Append(rest, proposer),
                                cm   |-> st.cm,
                                np   |-> np2]

ResultList_NotInverted(cm) == cm

\* return [(proposer, receiver) for receiver, proposer in current_matches.items()]
ResultList(cm) == [i \in DOMAIN cm |-> <<cm[i][2], cm[i][1]>>]

MatchState == [free |-> free_proposers, cm |-> current_matches, np |-> next_proposals]

Iterate(i) ==
    LET st == LoopBody(proposers_prefs, receivers_rankings(receivers_prefs), MatchState, i)
    IN  /\ free_proposers' = st.free
        /\ current_matches' = st.cm
        /\ next_proposals' = st.np
        /\ in_queue_order' = (in_queue_order /\ i = 1)
        /\ UNCHANGED <<proposers, proposers_prefs, receivers_prefs, pc, result>>
        /\ UNCHANGED bl_vars

\* line 28-29: the popped proposer has no one left to propose to
SkipExhausted(i) ==
    /\ pc = "loop"
    /\ i \in DOMAIN free_proposers
    /\ Exhausted(proposers_prefs, next_proposals, free_proposers[i])
    /\ Iterate(i)

\* line 34-35: the receiver holds no one
ProposeToFree(i) ==
    /\ pc = "loop"
    /\ i \in DOMAIN free_proposers
    /\ ~Exhausted(proposers_prefs, next_proposals, free_proposers[i])
    /\ ~DictHas(current_matches,
                NextReceiver(proposers_prefs, next_proposals, free_proposers[i]))
    /\ Iterate(i)

\* line 39-42: the receiver prefers the new proposer, the held one is freed
ProposeAndDisplace(i) ==
    /\ pc = "loop"
    /\ i \in DOMAIN free_proposers
    /\ ~Exhausted(proposers_prefs, next_proposals, free_proposers[i])
    /\ LET receiver == NextReceiver(proposers_prefs, next_proposals, free_proposers[i])
       IN  /\ DictHas(current_matches, receiver)
           /\ ReceiverPrefers(receivers_rankings(receivers_prefs), receiver,
                              free_proposers[i], DictGet(current_matches, receiver))
    /\ Iterate(i)

\* line 43-44: the receiver keeps the one it holds
ProposeAndLose(i) ==
    /\ pc = "loop"
    /\ i \in DOMAIN free_proposers
    /\ ~Exhausted(proposers_prefs, next_proposals, free_proposers[i])
    /\ LET receiver == NextReceiver(proposers_prefs, next_proposals, free_proposers[i])
       IN  /\ DictHas(current_matches, receiver)
           /\ ~ReceiverPrefers(receivers_rankings(receivers_prefs), receiver,
                               free_proposers[i], DictGet(current_matches, receiver))
    /\ Iterate(i)

\* line 25, 46: the queue is empty, match() returns
Return ==
    /\ pc = "loop"
    /\ free_proposers = <<>>
    /\ result' = ResultList(current_matches)
    /\ pc' = "done"
    /\ UNCHANGED <<proposers, proposers_prefs, receivers_prefs, free_proposers,
                   current_matches, next_proposals, in_queue_order>>
    /\ UNCHANGED bl_vars

\* The instances: every pair of sides of 0..MaxSide participants with
\* complete strict lists, and the example of app.py.
InstanceInit ==
    \/ \E n \in 0..MaxSide, m \in 0..MaxSide :
          /\ proposers = SubSeq(ProposerNames, 1, n)
          /\ proposers_prefs \in [Range(SubSeq(ProposerNames, 1, n)) ->
                                    Perms(Range(SubSeq(ReceiverNames, 1, m)))]
          /\ receivers_prefs \in [Range(SubSeq(ReceiverNames, 1, m)) ->
                                    Perms(Range(SubSeq(ProposerNames, 1, n)))]
    \/ /\ proposers = ProposerNames
       /\ proposers_prefs = ExampleProposerPrefs
       /\ receivers_prefs = ExampleReceiverPrefs

\* No BigLittleMatcher is in use
MatcherIdle ==
    /\ variant = "none"
    /\ bigs = <<>>
    /\ littles = <<>>
    /\ big_prefs = <<>>
    /\ little_prefs = <<>>
    /\ x = <<>>
    /\ mpc = "idle"
    /\ matches = <<>>
    /\ instabilities = <<>>
    /\ big_max = <<>>
    /\ little_max = <<>>
    /\ enforce_exactly_one = FALSE
    /\ preference_weight = 0
    /\ scores = <<>>

\* match(), lines 18-23
Init ==
    /\ MatcherIdle
    /\ InstanceInit
    /\ free_proposers = proposers
    /\ current_matches = <<>>
    /\ next_proposals = [p \in Range(proposers) |-> 0]
    /\ pc = "loop"
    /\ result = <<>>
    /\ in_queue_order = TRUE

\* free_proposers.pop(0)
Next ==
    \/ SkipExhausted(1)
    \/ ProposeToFree(1)
    \/ ProposeAndDisplace(1)
    \/ ProposeAndLose(1)
    \/ Return

Spec == Init /\ [][Next]_vars

\* The loop is sequential code: it keeps running while the queue is non-empty.
FairSpec == Spec /\ WF_vars(Next)

\* The same loop taking any proposer of the queue instead of the first.
NextAnyOrder ==
    \/ \E i \in DOMAIN free_proposers : SkipExhausted(i)
    \/ \E i \in DOMAIN free_proposers : ProposeToFree(i)
    \/ \E i \in DOMAIN free_proposers : ProposeAndDisplace(i)
    \/ \E i \in DOMAIN free_proposers : ProposeAndLose(i)
    \/ Return

SpecAnyOrder == Init /\ [][NextAnyOrder]_vars

----------------------------------------------------------------------------
\* match() as a function of its input: the loop run to the end, popping place 1

RECURSIVE RunLoop(_, _, _)
RunLoop(pp, rk, st) ==
    IF st.free = <<>> THEN st.cm ELSE RunLoop(pp, rk, LoopBody(pp, rk, st, 1))

match(keys, pp, rp) ==
    ResultList(RunLoop(pp, receivers_rankings(rp),
                       [free |-> keys, cm |-> <<>>, np |-> [p \in Range(keys) |-> 0]]))

----------------------------------------------------------------------------
\* Instability detector for list preferences (biglittlematcher.py)

None == "None"

RECURSIVE Flatten(_)
Flatten(ss) == IF ss = <<>> THEN <<>> ELSE Head(ss) \o Flatten(Tail(ss))

\* {k: v for k, v in pairs}: the last pair of a key wins
DictOfPairs(pairs) ==
    [k \in {pairs[i][1] : i \in DOMAIN pairs} |->
        pairs[CHOOSE i \in DOMAIN pairs :
                 pairs[i][1] = k /\ \A j \in DOMAIN pairs : pairs[j][1] = k => j <= i][2]]

\* d.get(k)
Get(d, k) == IF k \in DOMAIN d THEN d[k] ELSE None

Swapped(pairs) == [i \in DOMAIN pairs |-> <<pairs[i][2], pairs[i][1]>>]

\* prefs.index(a) < prefs.index(b)
ListStrictlyBefore(prefs, a, b) == IndexOf(prefs, a) < IndexOf(prefs, b)

\* _check_instabilities_list_prefs; big_keys is the key order of bp
check_instabilities_list_prefs(big_keys, bp, lp, ms) ==
    LET big_to_little == DictOfPairs(ms)
        little_to_big == DictOfPairs(Swapped(ms))
        candidates ==
            Flatten([i \in DOMAIN big_keys |->
                       [j \in DOMAIN bp[big_keys[i]] |->
                           <<big_keys[i], bp[big_keys[i]][j]>>]])
        Unstable(c) ==
            LET b == c[1]
                l == c[2]
                b_matched_l == Get(big_to_little, b)
                l_matched_b == Get(little_to_big, l)
            IN  /\ b_matched_l # l
                /\ b_matched_l # None
                /\ l_matched_b # None
                /\ ListStrictlyBefore(bp[b], l, b_matched_l)
                /\ ListStrictlyBefore(lp[l], b, l_matched_b)
    IN  SelectSeq(candidates, Unstable)

\* _check_instabilities_list_prefs, lines 288-289: list.index raises ValueError
\* when a pair that is not skipped needs the place of a name its list lacks
list_prefs_check_raises(big_keys, bp, lp, ms) ==
    LET big_to_little == DictOfPairs(ms)
        little_to_big == DictOfPairs(Swapped(ms))
    IN  \E i \in DOMAIN big_keys : \E j \in DOMAIN bp[big_keys[i]] :
            LET b == big_keys[i]
                l == bp[b][j]
                b_matched_l == Get(big_to_little, b)
                l_matched_b == Get(little_to_big, l)
            IN  /\ b_matched_l # l
                /\ b_matched_l # None
                /\ l_matched_b # None
                /\ \/ b_matched_l \notin Range(bp[b])
                   \/ b \notin Range(lp[l])
                   \/ l_matched_b \notin Range(lp[l])

----------------------------------------------------------------------------
\* BigLittleMatcher: the constraint systems (biglittlematcher.py)

\* Largest rank a ranked map assigns
MaxRank == 2

\* The sides of the enumerated ranked-map instances: the first two bigs and
\* littles of the examples of app.py
TieBigs == <<"Ishaan", "Cindy">>
TieLittles == <<"Swapneel", "Zora">>

\* No GaleShapley run is in progress
SolverIdle ==
    /\ proposers = <<>>
    /\ proposers_prefs = <<>>
    /\ receivers_prefs = <<>>
    /\ free_proposers = <<>>
    /\ current_matches = <<>>
    /\ next_proposals = <<>>
    /\ pc = "idle"
    /\ result = <<>>
    /\ in_queue_order = TRUE

\* __init__: self.max_rank_b = len(self.littles)
max_rank_b(ls) == Len(ls)

\* __init__: self.max_rank_l = len(self.bigs)
max_rank_l(bs) == Len(bs)

\* for b in self.bigs: for l in self.littles: self.x[(b, l)] = NewBoolVar
XKeys(bs, ls) ==
    Flatten([i \in DOMAIN bs |-> [j \in DOMAIN ls |-> <<bs[i], ls[j]>>]])

\* sum(self.x[(b, l)] for l in cands) under the assignment with ones at xs
SumBig(xs, b, cands) == Cardinality({l \in cands : <<b, l>> \in xs})

\* sum(self.x[(b, l)] for b in cands)
SumLittle(xs, l, cands) == Cardinality({b \in cands : <<b, l>> \in xs})

\* sum(...) == 1 for each big and each little
ExactlyOnePerParticipant(bs, ls, xs) ==
    /\ \A b \in Range(bs) : SumBig(xs, b, Range(ls)) = 1
    /\ \A l \in Range(ls) : SumLittle(xs, l, Range(bs)) = 1

\* sum(...) <= 1 for each big and each little
AtMostOnePerParticipant(bs, ls, xs) ==
    /\ \A b \in Range(bs) : SumBig(xs, b, Range(ls)) <= 1
    /\ \A l \in Range(ls) : SumLittle(xs, l, Range(bs)) <= 1

\* Add(x == 0).OnlyEnforceIf(not_matched); Add(x == 1).OnlyEnforceIf(not_matched.Not())
NotMatchedChannel(not_matched, xs, b, l) ==
    /\ not_matched => <<b, l>> \notin xs
    /\ ~not_matched => <<b, l>> \in xs

AuxChannel_OneWay(aux, sum) == ~aux => sum = 0

\* Add(sum >= 1).OnlyEnforceIf(aux); Add(sum == 0).OnlyEnforceIf(aux.Not())
AuxChannel(aux, sum) ==
    /\ aux => sum >= 1
    /\ ~aux => sum = 0

StabilityClause_WithoutMatchedCase(not_matched, b_with_better, l_with_better) ==
    b_with_better \/ l_with_better

\* AddBoolOr([not_matched.Not(), b_with_better, l_with_better])
StabilityClause(not_matched, b_with_better, l_with_better) ==
    ~not_matched \/ b_with_better \/ l_with_better

\* build_model, lines 71-97: the constraints of one pair, which alone mention
\* its three auxiliary booleans
SmpPairConstraints(bs, ls, bp, lp, xs, b, l) ==
    LET preferred_littles ==
            {l_prime \in Range(ls) : IndexOf(bp[b], l_prime) < IndexOf(bp[b], l)}
        preferred_bigs ==
            {b_prime \in Range(bs) : IndexOf(lp[l], b_prime) < IndexOf(lp[l], b)}
    IN  \E not_matched, b_with_better, l_with_better \in BOOLEAN :
            /\ NotMatchedChannel(not_matched, xs, b, l)
            /\ IF preferred_littles # {}
               THEN AuxChannel(b_with_better, SumBig(xs, b, preferred_littles))
               ELSE b_with_better = FALSE
            /\ IF preferred_bigs # {}
               THEN AuxChannel(l_with_better, SumLittle(xs, l, preferred_bigs))
               ELSE l_with_better = FALSE
            /\ StabilityClause(not_matched, b_with_better, l_with_better)

\* build_model: the assignment with ones at xs extends to a solution
FeasibleSmp(bs, ls, bp, lp, xs) ==
    /\ ExactlyOnePerParticipant(bs, ls, xs)
    /\ \A b \in Range(bs), l \in Range(ls) : SmpPairConstraints(bs, ls, bp, lp, xs, b, l)

\* build_model_smt, lines 129-152
SmtPairConstraints(bs, ls, bp, lp, xs, b, l) ==
    LET b_rank_of_l == bp[b][l]
        l_rank_of_b == lp[l][b]
        preferred_littles == {l_prime \in Range(ls) : bp[b][l_prime] <= b_rank_of_l}
        preferred_bigs == {b_prime \in Range(bs) : lp[l][b_prime] <= l_rank_of_b}
    IN  \E not_matched, b_with_better_or_equal, l_with_better_or_equal \in BOOLEAN :
            /\ NotMatchedChannel(not_matched, xs, b, l)
            /\ AuxChannel(b_with_better_or_equal, SumBig(xs, b, preferred_littles))
            /\ AuxChannel(l_with_better_or_equal, SumLittle(xs, l, preferred_bigs))
            /\ StabilityClause(not_matched, b_with_better_or_equal,
                               l_with_better_or_equal)

\* build_model_smt
FeasibleSmt(bs, ls, bp, lp, xs) ==
    /\ ExactlyOnePerParticipant(bs, ls, xs)
    /\ \A b \in Range(bs), l \in Range(ls) : SmtPairConstraints(bs, ls, bp, lp, xs, b, l)

\* prefs.get(p, {}).get(c, default)
RankOr(prefs, p, c, default) ==
    IF p \in DOMAIN prefs /\ c \in DOMAIN prefs[p] THEN prefs[p][c] ELSE default

\* build_model_smti, lines 185-189: the pair is left without constraints when
\* a rank read with the default equals max_rank_b or max_rank_l
SkipsPair(bs, ls, bp, lp, b, l) ==
    \/ RankOr(bp, b, l, max_rank_b(ls)) = max_rank_b(ls)
    \/ RankOr(lp, l, b, max_rank_l(bs)) = max_rank_l(bs)

\* build_model_smti, lines 185-211
SmtiPairConstraints(bs, ls, bp, lp, xs, b, l) ==
    LET b_rank_of_l == RankOr(bp, b, l, max_rank_b(ls))
        l_rank_of_b == RankOr(lp, l, b, max_rank_l(bs))
        preferred_littles ==
            {l_prime \in Range(ls) : RankOr(bp, b, l_prime, max_rank_b(ls)) <= b_rank_of_l}
        preferred_bigs ==
            {b_prime \in Range(bs) : RankOr(lp, l, b_prime, max_rank_l(bs)) <= l_rank_of_b}
    IN  IF SkipsPair(bs, ls, bp, lp, b, l)
        THEN TRUE
        ELSE \E not_matched, b_with_better_or_equal, l_with_better_or_equal \in BOOLEAN :
                /\ NotMatchedChannel(not_matched, xs, b, l)
                /\ AuxChannel(b_with_better_or_equal, SumBig(xs, b, preferred_littles))
                /\ AuxChannel(l_with_better_or_equal, SumLittle(xs, l, preferred_bigs))
                /\ StabilityClause(not_matched, b_with_better_or_equal,
                                   l_with_better_or_equal)

\* build_model_smti
FeasibleSmti(bs, ls, bp, lp, xs) ==
    /\ AtMostOnePerParticipant(bs, ls, xs)
    /\ \A b \in Range(bs), l \in Range(ls) : SmtiPairConstraints(bs, ls, bp, lp, xs, b, l)

\* The weights are the multiples of 1/WeightSteps in [0, 1]; a weight and a
\* score are held as their numerators over WeightSteps
WeightSteps == 2

\* Largest 'max' of a participant of an enumerated instance
MaxCapacity == 2

\* self.bigs[b].get('max', 1), self.littles[l].get('max', 1)
Capacity(caps, p) == IF p \in DOMAIN caps THEN caps[p] ELSE 1

SumWithinBounds_IgnoringMax(sum, enforce, cap) ==
    IF enforce THEN sum = 1 ELSE sum >= 1 /\ sum <= 1

\* build_model_optimize, lines 224-229 and 234-240: sum == 1 if
\* enforce_exactly_one, else sum >= 1 and sum <= max
SumWithinBounds(sum, enforce, cap) ==
    IF enforce THEN sum = 1 ELSE sum >= 1 /\ sum <= cap

\* build_model_optimize, lines 221-240: the only constraints
FeasibleOptimize(bs, ls, bmax, lmax, enforce, xs) ==
    /\ \A l \in Range(ls) :
          SumWithinBounds(SumLittle(xs, l, Range(bs)), enforce, Capacity(lmax, l))
    /\ \A b \in Range(bs) :
          SumWithinBounds(SumBig(xs, b, Range(ls)), enforce, Capacity(bmax, b))

\* prefs.get(p, []).index(c) if c in prefs.get(p, []) else max_rank
IndexOrMax(prefs, p, c, max_rank) ==
    IF p \in DOMAIN prefs /\ c \in Range(prefs[p]) THEN IndexOf(prefs[p], c) ELSE max_rank

score_WeightOnBothSides(bs, ls, bp, lp, w, b, l) ==
    w * (max_rank_b(ls) - IndexOrMax(bp, b, l, max_rank_b(ls)))
      + w * (max_rank_l(bs) - IndexOrMax(lp, l, b, max_rank_l(bs)))

\* build_model_optimize, lines 246-252, times WeightSteps:
\* preference_weight * (max_rank_b - rank_b)
\*   + (1 - preference_weight) * (max_rank_l - rank_l)
score(bs, ls, bp, lp, w, b, l) ==
    w * (max_rank_b(ls) - IndexOrMax(bp, b, l, max_rank_b(ls)))
      + (WeightSteps - w) * (max_rank_l(bs) - IndexOrMax(lp, l, b, max_rank_l(bs)))

\* self.scores after build_model_optimize
Scores(bs, ls, bp, lp, w) ==
    [k \in Range(XKeys(bs, ls)) |-> score(bs, ls, bp, lp, w, k[1], k[2])]

\* The constraint system the matcher has built accepts the ones at xs
Feasible(xs) ==
    CASE variant = "smp"  -> FeasibleSmp(bigs, littles, big_prefs, little_prefs, xs)
      [] variant = "smt"  -> FeasibleSmt(bigs, littles, big_prefs, little_prefs, xs)
      [] variant = "smti" -> FeasibleSmti(bigs, littles, big_prefs, little_prefs, xs)
      [] variant = "optimize" ->
            FeasibleOptimize(bigs, littles, big_max, little_max, enforce_exactly_one, xs)

RECURSIVE SumScores(_, _)
\* sum(self.scores[(b, l)] * self.x[(b, l)] for (b, l) in self.x)
SumScores(keys, xs) ==
    IF keys = <<>> THEN 0
    ELSE (IF Head(keys) \in xs THEN scores[Head(keys)] ELSE 0) + SumScores(Tail(keys), xs)

\* Maximize(0) for the stable-matching models, Maximize(sum of scores) for
\* build_model_optimize
Objective(xs) == IF variant = "optimize" THEN SumScores(x, xs) ELSE 0

\* build_model, lines 78 and 88: list.index raises ValueError for a name the
\* list lacks, and every list is searched for every candidate
build_model_raises(bs, ls, bp, lp) ==
    \E b \in Range(bs), l \in Range(ls) :
        \/ \E l_prime \in Range(ls) : l_prime \notin Range(bp[b])
        \/ \E b_prime \in Range(bs) : b_prime \notin Range(lp[l])

\* build_model_smt, lines 129-130, 139 and 147: a subscript raises KeyError
\* for a name the ranked map lacks
build_model_smt_raises(bs, ls, bp, lp) ==
    \E b \in Range(bs), l \in Range(ls) :
        \/ \E l_prime \in Range(ls) : l_prime \notin DOMAIN bp[b]
        \/ \E b_prime \in Range(bs) : b_prime \notin DOMAIN lp[l]

BuildRaises_Never == FALSE

\* The build method of the variant ends with an exception; build_model_smti
\* and build_model_optimize read the preferences with defaults
BuildRaises ==
    CASE variant = "smp" -> build_model_raises(bigs, littles, big_prefs, little_prefs)
      [] variant = "smt" -> build_model_smt_raises(bigs, littles, big_prefs, little_prefs)
      [] OTHER -> FALSE

\* build_model / build_model_smt / build_model_smti / build_model_optimize;
\* the keys of x are all there before the first constraint is added
BuildModel ==
    /\ mpc = "new"
    /\ x' = XKeys(bigs, littles)
    /\ scores' = IF variant = "optimize"
                 THEN Scores(bigs, littles, big_prefs, little_prefs, preference_weight)
                 ELSE scores
    /\ mpc' = IF BuildRaises THEN "error" ELSE "built"
    /\ UNCHANGED <<variant, bigs, littles, big_prefs, little_prefs, matches,
                   instabilities, opt_inputs>>
    /\ UNCHANGED gs_vars

\* The assignments of the decision variables, each given by the keys set to 1
Assignments == SUBSET Range(x)

\* solve(): the backend returns any solution that maximizes the objective.
\* Without one it raises ValueError('Not possible!'); with one, matches lists
\* the keys of x whose variable is 1
solve ==
    /\ mpc = "built"
    /\ \E solutions \in {{a \in Assignments : Feasible(a)}} :
          IF solutions = {}
          THEN /\ mpc' = "failed"
               /\ matches' = matches
          ELSE /\ mpc' = "solved"
               /\ \E xs \in {a \in solutions :
                                \A a2 \in solutions : Objective(a2) <= Objective(a)} :
                     matches' = SelectSeq(x, LAMBDA k : k \in xs)
    /\ UNCHANGED <<variant, bigs, littles, big_prefs, little_prefs, x, instabilities,
                   opt_inputs, scores>>
    /\ UNCHANGED gs_vars

----------------------------------------------------------------------------
\* BigLittleMatcher: the instability detector for ranked maps, and the calls

RankStrictlyLess_OrEqual(prefs, p, c, current) ==
    /\ p \in DOMAIN prefs /\ c \in DOMAIN prefs[p]
    /\ \/ current \notin DOMAIN prefs[p]
       \/ prefs[p][c] <= prefs[p][current]

\* prefs.get(p, {}).get(c, inf) < prefs.get(p, {}).get(current, inf), where
\* current may be None: an absent rank is infinite
RankStrictlyLess(prefs, p, c, current) ==
    /\ p \in DOMAIN prefs /\ c \in DOMAIN prefs[p]
    /\ \/ current \notin DOMAIN prefs[p]
       \/ prefs[p][c] < prefs[p][current]

\* _get_all_potential_pairs; the keys of the preference dicts are in the order
\* of bs and ls
get_all_potential_pairs(bs, ls, big_to_little, little_to_big) ==
    LET all == Flatten([i \in DOMAIN bs |-> [j \in DOMAIN ls |-> <<bs[i], ls[j]>>]])
        Kept(c) ==
            /\ c[1] \in DOMAIN big_to_little
            /\ c[2] \in DOMAIN little_to_big
            /\ c[2] # big_to_little[c[1]]
    IN  SelectSeq(all, Kept)

\* _is_instability
is_instability(bp, lp, b, l, big_to_little, little_to_big) ==
    LET b_matched_l == Get(big_to_little, b)
        l_matched_b == Get(little_to_big, l)
    IN  /\ RankStrictlyLess(bp, b, l, b_matched_l)
        /\ RankStrictlyLess(lp, l, b, l_matched_b)

\* _check_instabilities_dict_prefs
check_instabilities_dict_prefs(bs, ls, bp, lp, ms) ==
    LET big_to_little == DictOfPairs(ms)
        little_to_big == DictOfPairs(Swapped(ms))
        Unstable(c) == is_instability(bp, lp, c[1], c[2], big_to_little, little_to_big)
    IN  SelectSeq(get_all_potential_pairs(bs, ls, big_to_little, little_to_big), Unstable)

\* isinstance(self.big_prefs[first_big], list): build_model and
\* build_model_optimize take lists
PrefsAreLists == variant \in {"smp", "optimize"}

\* check_instabilities
check_instabilities(ms) ==
    IF ms = <<>> THEN <<>>
    ELSE IF PrefsAreLists
         THEN check_instabilities_list_prefs(bigs, big_prefs, little_prefs, ms)
         ELSE check_instabilities_dict_prefs(bigs, littles, big_prefs, little_prefs, ms)

\* check_instabilities ends with a ValueError
check_instabilities_raises(ms) ==
    /\ ms # <<>>
    /\ PrefsAreLists
    /\ list_prefs_check_raises(bigs, big_prefs, little_prefs, ms)

\* app.py, line 437: instabilities = matcher.check_instabilities(matches)
CheckInstabilities ==
    /\ mpc \in {"solved", "given"}
    /\ IF check_instabilities_raises(matches)
       THEN /\ mpc' = "error"
            /\ instabilities' = instabilities
       ELSE /\ mpc' = "checked"
            /\ instabilities' = check_instabilities(matches)
    /\ UNCHANGED <<variant, bigs, littles, big_prefs, little_prefs, x, matches,
                   opt_inputs, scores>>
    /\ UNCHANGED gs_vars

\* Complete strict lists on sides of 0..MaxSide, and the example of app.py
ListInstanceInit ==
    /\ variant = "smp"
    /\ \/ \E n \in 0..MaxSide, m \in 0..MaxSide :
             /\ bigs = SubSeq(ProposerNames, 1, n)
             /\ littles = SubSeq(ReceiverNames, 1, m)
             /\ big_prefs \in [Range(SubSeq(ProposerNames, 1, n)) ->
                                  Perms(Range(SubSeq(ReceiverNames, 1, m)))]
             /\ little_prefs \in [Range(SubSeq(ReceiverNames, 1, m)) ->
                                     Perms(Range(SubSeq(ProposerNames, 1, n)))]
       \/ /\ bigs = ProposerNames
          /\ littles = ReceiverNames
          /\ big_prefs = ExampleProposerPrefs
          /\ little_prefs = ExampleReceiverPrefs

\* The ranked maps over cands with ranks 1..MaxRank, every candidate ranked
CompleteRankMaps(cands) == [cands -> 1..MaxRank]

\* The ranked maps over cands with ranks 1..MaxRank, some candidates unranked
PartialRankMaps(cands) == UNION {[S -> 1..MaxRank] : S \in SUBSET cands}

\* Ranked maps on the prefixes of TieBigs and TieLittles: complete for
\* build_model_smt, partial for build_model_smti
RankedInstanceInit ==
    \E n \in DOMAIN TieBigs, m \in DOMAIN TieLittles :
        /\ bigs = SubSeq(TieBigs, 1, n)
        /\ littles = SubSeq(TieLittles, 1, m)
        /\ \/ /\ variant = "smt"
              /\ big_prefs \in [Range(SubSeq(TieBigs, 1, n)) ->
                                   CompleteRankMaps(Range(SubSeq(TieLittles, 1, m)))]
              /\ little_prefs \in [Range(SubSeq(TieLittles, 1, m)) ->
                                      CompleteRankMaps(Range(SubSeq(TieBigs, 1, n)))]
           \/ /\ variant = "smti"
              /\ big_prefs \in [Range(SubSeq(TieBigs, 1, n)) ->
                                   PartialRankMaps(Range(SubSeq(TieLittles, 1, m)))]
              /\ little_prefs \in [Range(SubSeq(TieLittles, 1, m)) ->
                                      PartialRankMaps(Range(SubSeq(TieBigs, 1, n)))]

\* The SMT example of app.py
ExampleSmtBigPrefs ==
    [b \in {"Ishaan", "Cindy", "Thomas"} |->
        CASE b = "Ishaan" -> [Swapneel |-> 1, Kevin |-> 2, Zora |-> 1]
          [] b = "Cindy"  -> [Swapneel |-> 3, Kevin |-> 1, Zora |-> 2]
          [] b = "Thomas" -> [Swapneel |-> 1, Kevin |-> 2, Zora |-> 3]]

ExampleSmtLittlePrefs ==
    [l \in {"Swapneel", "Zora", "Kevin"} |->
        CASE l = "Swapneel" -> [Ishaan |-> 2, Cindy |-> 3, Thomas |-> 1]
          [] l = "Zora"     -> [Ishaan |-> 3, Cindy |-> 1, Thomas |-> 2]
          [] l = "Kevin"    -> [Ishaan |-> 1, Cindy |-> 1, Thomas |-> 2]]

\* The SMTI example of app.py
ExampleSmtiBigPrefs ==
    [b \in {"Ishaan", "Cindy", "Thomas"} |->
        CASE b = "Ishaan" -> [Swapneel |-> 1, Zora |-> 1]
          [] b = "Cindy"  -> [Swapneel |-> 3, Kevin |-> 1, Zora |-> 2]
          [] b = "Thomas" -> [Swapneel |-> 1, Kevin |-> 2]]

ExampleSmtiLittlePrefs ==
    [l \in {"Swapneel", "Zora", "Kevin"} |->
        CASE l = "Swapneel" -> [Ishaan |-> 2, Thomas |-> 1]
          [] l = "Zora"     -> [Ishaan |-> 3, Cindy |-> 1, Thomas |-> 2]
          [] l = "Kevin"    -> [Ishaan |-> 1, Cindy |-> 1]]

\* The 3x3 Latin square with cyclic strict preferences, as ranked maps: big i
\* ranks the littles cyclically from little i, and each little ranks a big
\* last that ranks it first, first that ranks it last
LatinSquareBigPrefs ==
    [b \in {"Ishaan", "Cindy", "Thomas"} |->
        CASE b = "Ishaan" -> [Swapneel |-> 1, Zora |-> 2, Kevin |-> 3]
          [] b = "Cindy"  -> [Swapneel |-> 3, Zora |-> 1, Kevin |-> 2]
          [] b = "Thomas" -> [Swapneel |-> 2, Zora |-> 3, Kevin |-> 1]]

LatinSquareLittlePrefs ==
    [l \in {"Swapneel", "Zora", "Kevin"} |->
        CASE l = "Swapneel" -> [Ishaan |-> 3, Cindy |-> 1, Thomas |-> 2]
          [] l = "Zora"     -> [Ishaan |-> 2, Cindy |-> 3, Thomas |-> 1]
          [] l = "Kevin"    -> [Ishaan |-> 1, Cindy |-> 2, Thomas |-> 3]]

\* The 3x3 ranked-map instances: the two examples of app.py and the Latin
\* square
RankedExampleInit ==
    /\ bigs = ProposerNames
    /\ littles = ReceiverNames
    /\ \/ /\ variant = "smt"
          /\ big_prefs = ExampleSmtBigPrefs
          /\ little_prefs = ExampleSmtLittlePrefs
       \/ /\ variant = "smt"
          /\ big_prefs = LatinSquareBigPrefs
          /\ little_prefs = LatinSquareLittlePrefs
       \/ /\ variant = "smti"
          /\ big_prefs = ExampleSmtiBigPrefs
          /\ little_prefs = ExampleSmtiLittlePrefs

\* The duplicate-free lists over some of cands
PartialLists(cands) == UNION {Perms(T) : T \in SUBSET cands}

\* The 'max' entries of some of the participants, each in 0..MaxCapacity
CapacityMaps(cands) == UNION {[S -> 0..MaxCapacity] : S \in SUBSET cands}

\* The Optimized Matching example of app.py
OptimizeBigs == <<"Ishaan", "Cindy", "Thomas">>
OptimizeLittles == <<"Swapneel", "Zora", "Kevin", "Morgan">>

OptimizeBigMax == [Ishaan |-> 1, Cindy |-> 2, Thomas |-> 1]
OptimizeLittleMax == [Swapneel |-> 1, Zora |-> 1, Kevin |-> 1, Morgan |-> 1]

OptimizeBigPrefs ==
    [b \in {"Ishaan", "Cindy", "Thomas"} |->
        CASE b = "Ishaan" -> <<"Swapneel", "Zora", "Kevin", "Morgan">>
          [] b = "Cindy"  -> <<"Zora", "Swapneel", "Morgan", "Kevin">>
          [] b = "Thomas" -> <<"Kevin", "Morgan", "Swapneel", "Zora">>]

OptimizeLittlePrefs ==
    [l \in {"Swapneel", "Zora", "Kevin", "Morgan"} |->
        CASE l = "Swapneel" -> <<"Ishaan", "Cindy", "Thomas">>
          [] l = "Zora"     -> <<"Cindy", "Ishaan", "Thomas">>
          [] l = "Kevin"    -> <<"Thomas", "Ishaan", "Cindy">>
          [] l = "Morgan"   -> <<"Thomas", "Cindy", "Ishaan">>]

\* The instances of build_model_optimize, every weight in each: complete lists
\* with every choice of 'max' entries and of enforce_exactly_one; lists that
\* leave candidates out, no 'max' entries; and the example of app.py
OptimizeInstanceInit ==
    /\ variant = "optimize"
    /\ preference_weight \in 0..WeightSteps
    /\ \/ \E n \in DOMAIN TieBigs, m \in DOMAIN TieLittles :
             /\ bigs = SubSeq(TieBigs, 1, n)
             /\ littles = SubSeq(TieLittles, 1, m)
             /\ \/ /\ big_prefs \in [Range(SubSeq(TieBigs, 1, n)) ->
                                       Perms(Range(SubSeq(TieLittles, 1, m)))]
                   /\ little_prefs \in [Range(SubSeq(TieLittles, 1, m)) ->
                                          Perms(Range(SubSeq(TieBigs, 1, n)))]
                   /\ big_max \in CapacityMaps(Range(SubSeq(TieBigs, 1, n)))
                   /\ little_max \in CapacityMaps(Range(SubSeq(TieLittles, 1, m)))
                   /\ enforce_exactly_one \in BOOLEAN
                \/ /\ big_prefs \in [Range(SubSeq(TieBigs, 1, n)) ->
                                       PartialLists(Range(SubSeq(TieLittles, 1, m)))]
                   /\ little_prefs \in [Range(SubSeq(TieLittles, 1, m)) ->
                                          PartialLists(Range(SubSeq(TieBigs, 1, n)))]
                   /\ big_max = <<>>
                   /\ little_max = <<>>
                   /\ enforce_exactly_one = FALSE
       \/ /\ bigs = OptimizeBigs
          /\ littles = OptimizeLittles
          /\ big_prefs = OptimizeBigPrefs
          /\ little_prefs = OptimizeLittlePrefs
          /\ big_max = OptimizeBigMax
          /\ little_max = OptimizeLittleMax
          /\ enforce_exactly_one \in BOOLEAN

\* Preference data that may leave candidates out, for each of the three
\* stable-matching models
IncompleteInstanceInit ==
    \E n \in DOMAIN TieBigs, m \in DOMAIN TieLittles :
        /\ bigs = SubSeq(TieBigs, 1, n)
        /\ littles = SubSeq(TieLittles, 1, m)
        /\ \/ /\ variant = "smp"
              /\ big_prefs \in [Range(SubSeq(TieBigs, 1, n)) ->
                                   PartialLists(Range(SubSeq(TieLittles, 1, m)))]
              /\ little_prefs \in [Range(SubSeq(TieLittles, 1, m)) ->
                                      PartialLists(Range(SubSeq(TieBigs, 1, n)))]
           \/ /\ variant \in {"smt", "smti"}
              /\ big_prefs \in [Range(SubSeq(TieBigs, 1, n)) ->
                                   PartialRankMaps(Range(SubSeq(TieLittles, 1, m)))]
              /\ little_prefs \in [Range(SubSeq(TieLittles, 1, m)) ->
                                      PartialRankMaps(Range(SubSeq(TieBigs, 1, n)))]

\* BigLittleMatcher.__init__
MatcherNew ==
    /\ SolverIdle
    /\ x = <<>>
    /\ scores = <<>>
    /\ mpc = "new"
    /\ matches = <<>>
    /\ instabilities = <<>>

\* The stable-matching models: no participant has a 'max' (app.py, lines
\* 75-76), and build_model_optimize and its arguments are not used
NoCapacities ==
    /\ big_max = <<>>
    /\ little_max = <<>>
    /\ enforce_exactly_one = FALSE
    /\ preference_weight = 0

MatcherNext ==
    \/ BuildModel
    \/ solve
    \/ CheckInstabilities

\* A matcher on list preferences: build_model, solve, check_instabilities
InitSmp == MatcherNew /\ NoCapacities /\ ListInstanceInit

SpecSmp == InitSmp /\ [][MatcherNext]_vars

\* A matcher on ranked maps: build_model_smt or build_model_smti, solve,
\* check_instabilities
InitTies == MatcherNew /\ NoCapacities /\ (RankedInstanceInit \/ RankedExampleInit)

SpecTies == InitTies /\ [][MatcherNext]_vars

\* A matcher on preference data that may leave candidates out
InitIncomplete == MatcherNew /\ NoCapacities /\ IncompleteInstanceInit

SpecIncomplete == InitIncomplete /\ [][MatcherNext]_vars

\* A matcher on lists and capacities: build_model_optimize, solve,
\* check_instabilities
InitOptimize == MatcherNew /\ OptimizeInstanceInit

SpecOptimize == InitOptimize /\ [][MatcherNext]_vars

\* The lists over all of cands in which at most one place repeats an earlier
\* entry
ListsWithDuplicate(cands) ==
    {s \in UNION {[1..k -> cands] : k \in Cardinality(cands)..(Cardinality(cands) + 1)} :
        Range(s) = cands}

\* Instances whose lists name every candidate and may name one twice
DuplicateInstanceInit ==
    \E n \in DOMAIN TieBigs, m \in DOMAIN TieLittles :
        /\ proposers = SubSeq(TieBigs, 1, n)
        /\ proposers_prefs \in [Range(SubSeq(TieBigs, 1, n)) ->
                                  ListsWithDuplicate(Range(SubSeq(TieLittles, 1, m)))]
        /\ receivers_prefs \in [Range(SubSeq(TieLittles, 1, m)) ->
                                  ListsWithDuplicate(Range(SubSeq(TieBigs, 1, n)))]

\* match(), lines 18-23, on lists that may name a candidate twice
InitWithDuplicates ==
    /\ MatcherIdle
    /\ DuplicateInstanceInit
    /\ free_proposers = proposers
    /\ current_matches = <<>>
    /\ next_proposals = [p \in Range(proposers) |-> 0]
    /\ pc = "loop"
    /\ result = <<>>
    /\ in_queue_order = TRUE

\* Inputs the spec calls invalid: match() on lists with a duplicate, and
\* build_model_optimize on capacities that may be 0
InitInvalid == InitWithDuplicates \/ InitOptimize

NextInvalid == Next \/ MatcherNext

SpecInvalid == InitInvalid /\ [][NextInvalid]_vars

\* The one-to-one matchings of bs and ls, all or some participants matched,
\* as lists in the order of the keys of x
OneToOneMatchings(bs, ls) ==
    {SelectSeq(XKeys(bs, ls), LAMBDA k : m[k[1]] = k[2]) :
        m \in {f \in [Range(bs) -> Range(ls) \cup {None}] :
                  \A b1, b2 \in Range(bs) : (b1 # b2 /\ f[b1] # None) => f[b1] # f[b2]}}

\* Every set of pairs of bs and ls, as a list in the order of the keys of x
AnyMatchings(bs, ls) ==
    {SelectSeq(XKeys(bs, ls), LAMBDA k : k \in xs) : xs \in SUBSET Range(XKeys(bs, ls))}

\* check_instabilities called on a matching of the caller's: one-to-one on
\* list preferences, any set of pairs on ranked maps
InitDetector ==
    /\ SolverIdle
    /\ NoCapacities
    /\ x = <<>>
    /\ scores = <<>>
    /\ mpc = "given"
    /\ instabilities = <<>>
    /\ \/ ListInstanceInit /\ matches \in OneToOneMatchings(bigs, littles)
       \/ /\ RankedInstanceInit
          /\ variant = "smti"
          /\ matches \in AnyMatchings(bigs, littles)

DetectorNext == CheckInstabilities

SpecDetector == InitDetector /\ [][DetectorNext]_vars

----------------------------------------------------------------------------
\* Properties of GaleShapley.match

Receivers == DOMAIN receivers_prefs

StrictTotalOrderInput ==
    /\ DOMAIN proposers_prefs = Range(proposers)
    /\ \A p \in Range(proposers) : proposers_prefs[p] \in Perms(Receivers)
    /\ \A r \in Receivers : receivers_prefs[r] \in Perms(Range(proposers))

\* 1-based position of c in a duplicate-free list
Position(list, c) == CHOOSE i \in DOMAIN list : list[i] = c

\* Position of the partner, one past the end of the list for no partner
PartnerPosition(list, partner) ==
    IF partner = None THEN Len(list) + 1 ELSE Position(list, partner)

ResultPartnerOfProposer(p) ==
    IF \E i \in DOMAIN result : result[i][1] = p
    THEN result[CHOOSE i \in DOMAIN result : result[i][1] = p][2]
    ELSE None

ResultPartnerOfReceiver(r) ==
    IF \E i \in DOMAIN result : result[i][2] = r
    THEN result[CHOOSE i \in DOMAIN result : result[i][2] = r][1]
    ELSE None

\* (p, r) blocks the result: not matched to each other, both have a partner,
\* and each ranks the other before its partner
BlocksResult(p, r) ==
    /\ ResultPartnerOfProposer(p) # r
    /\ ResultPartnerOfProposer(p) # None
    /\ ResultPartnerOfReceiver(r) # None
    /\ Position(proposers_prefs[p], r)
         < Position(proposers_prefs[p], ResultPartnerOfProposer(p))
    /\ Position(receivers_prefs[r], p)
         < Position(receivers_prefs[r], ResultPartnerOfReceiver(r))

\* C1: for strict-total-order input the matching match() returns has no
\* blocking pair: check_instabilities on it is empty, and no proposer and
\* receiver not matched to each other rank each other before their partners.
C1_ResultHasNoBlockingPair ==
    (pc = "done" /\ StrictTotalOrderInput) =>
        /\ check_instabilities_list_prefs(proposers, proposers_prefs,
                                          receivers_prefs, result) = <<>>
        /\ \A p \in Range(proposers), r \in Receivers : ~BlocksResult(p, r)

\* match() has returned a matching of two pairs or more, reached after some
\* proposer was turned down or displaced
C1_Witness ==
    /\ pc = "done"
    /\ StrictTotalOrderInput
    /\ Len(result) >= 2
    /\ \E p \in Range(proposers) : next_proposals[p] >= 2

\* The one-to-one matchings of the instance, as partner maps of the proposers
Matchings ==
    {m \in [Range(proposers) -> Receivers \cup {None}] :
        \A p, q \in Range(proposers) : (p # q /\ m[p] # None) => m[p] # m[q]}

PartnerIn(m, r) ==
    IF \E p \in DOMAIN m : m[p] = r THEN CHOOSE p \in DOMAIN m : m[p] = r ELSE None

\* Classical stability on complete lists: no proposer and receiver, not matched
\* to each other, each ranking the other before its partner or having none
IsStable(m) ==
    \A p \in Range(proposers), r \in Receivers :
        ~ /\ m[p] # r
          /\ Position(proposers_prefs[p], r) < PartnerPosition(proposers_prefs[p], m[p])
          /\ Position(receivers_prefs[r], p)
               < PartnerPosition(receivers_prefs[r], PartnerIn(m, r))

StableMatchings == {m \in Matchings : IsStable(m)}

\* C2: for strict-total-order input the result is proposer-optimal and
\* receiver-pessimal: against every stable matching M, each proposer has a
\* partner it ranks at least as high as in M, each receiver one no higher.
C2_ProposerOptimalReceiverPessimal ==
    (pc = "done" /\ StrictTotalOrderInput) =>
        \A m \in StableMatchings :
            /\ \A p \in Range(proposers) :
                  PartnerPosition(proposers_prefs[p], ResultPartnerOfProposer(p))
                    <= PartnerPosition(proposers_prefs[p], m[p])
            /\ \A r \in Receivers :
                  PartnerPosition(receivers_prefs[r], ResultPartnerOfReceiver(r))
                    >= PartnerPosition(receivers_prefs[r], PartnerIn(m, r))

\* match() has returned on an instance with a stable matching other than the
\* result, in which some proposer is strictly worse off
C2_Witness ==
    /\ pc = "done"
    /\ StrictTotalOrderInput
    /\ \E m \in StableMatchings : \E p \in Range(proposers) :
          PartnerPosition(proposers_prefs[p], ResultPartnerOfProposer(p))
            < PartnerPosition(proposers_prefs[p], m[p])

IsExample ==
    /\ proposers = ProposerNames
    /\ proposers_prefs = ExampleProposerPrefs
    /\ receivers_prefs = ExampleReceiverPrefs

\* C3 as stated: on the example match() returns
\* {(Ishaan,Kevin), (Cindy,Swapneel), (Thomas,Zora)}.
C3_ExampleResultAsStated ==
    (pc = "done" /\ IsExample) =>
        Range(result) = {<<"Ishaan", "Kevin">>, <<"Cindy", "Swapneel">>,
                         <<"Thomas", "Zora">>}

\* C3, amended: on the example match() returns exactly
\* {(Ishaan,Swapneel), (Cindy,Kevin), (Thomas,Zora)}: every proposer gets its
\* first choice.
C3_ExampleResult ==
    (pc = "done" /\ IsExample) =>
        /\ Range(result) = {<<"Ishaan", "Swapneel">>, <<"Cindy", "Kevin">>,
                            <<"Thomas", "Zora">>}
        /\ Len(result) = 3

C3_Witness == pc = "done" /\ IsExample /\ Len(result) = 3

RECURSIVE SumCursors(_, _)
SumCursors(np, keys) ==
    IF keys = <<>> THEN 0 ELSE np[Head(keys)] + SumCursors(np, Tail(keys))

\* The number of cursor advances so far
Attempts == SumCursors(next_proposals, proposers)

RECURSIVE MaxLen(_, _)
MaxLen(pp, keys) ==
    IF keys = <<>> THEN 0
    ELSE LET rest == MaxLen(pp, Tail(keys))
         IN  IF Len(pp[Head(keys)]) > rest THEN Len(pp[Head(keys)]) ELSE rest

\* C9: match() terminates (the queue becomes empty and it returns), and the
\* cursor advances never exceed (number of proposers) x (longest proposer list).
C9_TerminatesWithinBound ==
    /\ <>(pc = "done")
    /\ [](Attempts <= Len(proposers) * MaxLen(proposers_prefs, proposers))

\* match() has returned after some proposer had to propose more than once
C9_Witness ==
    /\ pc = "done"
    /\ Attempts > Len(proposers)
    /\ Len(proposers) >= 2

\* C10: for strict-total-order input, whatever proposer the loop takes from
\* the queue at each iteration, it ends with the set of pairs that match(),
\* which takes the first, returns.
C10_OrderIndependent ==
    (pc = "done" /\ StrictTotalOrderInput) =>
        Range(result) = Range(match(proposers, proposers_prefs, receivers_prefs))

\* A run that did not follow the queue order, and in which some proposer was
\* turned down or displaced, has ended with the same set of pairs
C10_Witness ==
    /\ pc = "done"
    /\ StrictTotalOrderInput
    /\ ~in_queue_order
    /\ Range(result) = Range(match(proposers, proposers_prefs, receivers_prefs))
    /\ \E p \in Range(proposers) : next_proposals[p] >= 2

----------------------------------------------------------------------------
\* Properties of the constraint systems and of the detector

Bigs == Range(bigs)
Littles == Range(littles)

\* xs has as many pairs as there are bigs and as there are littles, and
\* matches every big and every little exactly once
IsPerfectMatching(xs) ==
    /\ Cardinality(xs) = Len(bigs)
    /\ Cardinality(xs) = Len(littles)
    /\ \A b \in Bigs : \E l \in Littles :
          <<b, l>> \in xs /\ \A l2 \in Littles : <<b, l2>> \in xs => l2 = l
    /\ \A l \in Littles : \E b \in Bigs :
          <<b, l>> \in xs /\ \A b2 \in Bigs : <<b2, l>> \in xs => b2 = b

LittleOf(xs, b) == CHOOSE l \in Littles : <<b, l>> \in xs
BigOf(xs, l) == CHOOSE b \in Bigs : <<b, l>> \in xs

\* No big and little, not matched to each other in the perfect matching xs,
\* each have the other earlier in their list than their partner
NoBlockingPairByPosition(xs) ==
    \A b \in Bigs, l \in Littles :
        <<b, l>> \notin xs =>
            ~ /\ Position(big_prefs[b], l) < Position(big_prefs[b], LittleOf(xs, b))
              /\ Position(little_prefs[l], b) < Position(little_prefs[l], BigOf(xs, l))

\* C4: for build_model on complete strict lists, an assignment of the x[(b,l)]
\* extends to a solution of the constraint system if and only if its ones
\* are a matching covering everyone exactly once without a blocking pair.
C4_SmpModelSoundAndComplete ==
    (mpc = "built" /\ variant = "smp") =>
        \A xs \in SUBSET Range(x) :
            Feasible(xs) <=> (IsPerfectMatching(xs) /\ NoBlockingPairByPosition(xs))

\* build_model has run on an instance where one perfect matching is a
\* solution and another, having a blocking pair, is not
C4_Witness ==
    /\ mpc = "built"
    /\ variant = "smp"
    /\ \E xs \in SUBSET Range(x) : Feasible(xs)
    /\ \E xs \in SUBSET Range(x) :
          IsPerfectMatching(xs) /\ ~NoBlockingPairByPosition(xs) /\ ~Feasible(xs)

\* C5 as stated: for build_model_smt and build_model_smti every matching
\* solve returns has no blocking pair: check_instabilities on it is empty.
C5_SolutionsHaveNoInstability ==
    (mpc = "checked" /\ variant \in {"smt", "smti"}) => instabilities = <<>>

\* The part of C5 about build_model_smt alone
C5_SmtSolutionsHaveNoInstability ==
    (mpc = "checked" /\ variant = "smt") => instabilities = <<>>

\* No big and no little is in two of the pairs
IsOneToOne(ms) ==
    \A i, j \in DOMAIN ms : (i # j) => (ms[i][1] # ms[j][1] /\ ms[i][2] # ms[j][2])

\* C6 as stated: every solution of build_model_smti matches each participant
\* at most once and only pairs in which each ranks the other.
C6_SmtiSolutionsMutuallyAcceptable ==
    (mpc = "solved" /\ variant = "smti") =>
        /\ IsOneToOne(matches)
        /\ \A i \in DOMAIN matches :
              /\ matches[i][2] \in DOMAIN big_prefs[matches[i][1]]
              /\ matches[i][1] \in DOMAIN little_prefs[matches[i][2]]

\* A rank that compares worse than every rank a participant can give
WorseThanEveryRank == MaxRank + 1

\* The rank p gives c: the position in p's list, or the number in p's ranked
\* map, an absent entry comparing worse than every rank
RankGiven(prefs, p, c) ==
    IF PrefsAreLists THEN Position(prefs[p], c)
    ELSE IF c \in DOMAIN prefs[p] THEN prefs[p][c] ELSE WorseThanEveryRank

BigIsMatched(b) == \E l \in Littles : <<b, l>> \in Range(matches)
LittleIsMatched(l) == \E b \in Bigs : <<b, l>> \in Range(matches)

\* b and l are not matched to each other and each gives the other a strictly
\* smaller rank than it gives its partner
StrictlyPreferEachOther(b, l) ==
    /\ <<b, l>> \notin Range(matches)
    /\ RankGiven(big_prefs, b, l)
         < RankGiven(big_prefs, b, LittleOf(Range(matches), b))
    /\ RankGiven(little_prefs, l, b)
         < RankGiven(little_prefs, l, BigOf(Range(matches), l))

\* C7: on a one-to-one matching check_instabilities returns, each once, exactly
\* the pairs (p, r) of matched participants, not matched to each other, with
\* rank(p, r) < rank(p, partner of p) and rank(r, p) < rank(r, partner of r),
\* for lists and for ranked maps alike; a tie on either side is not reported.
C7_ReportsExactlyStrictBlockingPairs ==
    (mpc = "checked" /\ IsOneToOne(matches)) =>
        /\ Range(instabilities) =
              {c \in Bigs \X Littles :
                  /\ BigIsMatched(c[1])
                  /\ LittleIsMatched(c[2])
                  /\ StrictlyPreferEachOther(c[1], c[2])}
        /\ Cardinality(Range(instabilities)) = Len(instabilities)

\* check_instabilities has run on ranked maps and a one-to-one matching where
\* it reports a pair, and leaves out a pair whose little strictly prefers the
\* big while the big ranks the little equal to its partner
C7_Witness ==
    /\ mpc = "checked"
    /\ ~PrefsAreLists
    /\ IsOneToOne(matches)
    /\ instabilities # <<>>
    /\ \E b \in Bigs, l \in Littles :
          /\ BigIsMatched(b) /\ LittleIsMatched(l)
          /\ <<b, l>> \notin Range(matches)
          /\ RankGiven(big_prefs, b, l)
               = RankGiven(big_prefs, b, LittleOf(Range(matches), b))
          /\ RankGiven(big_prefs, b, l) # WorseThanEveryRank
          /\ RankGiven(little_prefs, l, b)
               < RankGiven(little_prefs, l, BigOf(Range(matches), l))
          /\ <<b, l>> \notin Range(instabilities)

\* b and l each rank the other
MutuallyAcceptable(b, l) ==
    /\ l \in DOMAIN big_prefs[b]
    /\ b \in DOMAIN little_prefs[l]

\* C8 as stated: on ranked maps, a mutually acceptable pair (p, r) in which p
\* or r or both are unmatched, and whichever of them is matched strictly
\* prefers the other to its partner, is reported by check_instabilities, the
\* empty matching included.
C8_UnmatchedBlockingPairsReported ==
    (mpc = "checked" /\ ~PrefsAreLists /\ IsOneToOne(matches)) =>
        \A b \in Bigs, l \in Littles :
            ( /\ MutuallyAcceptable(b, l)
              /\ ~BigIsMatched(b) \/ ~LittleIsMatched(l)
              /\ \/ ~BigIsMatched(b)
                 \/ RankGiven(big_prefs, b, l)
                      < RankGiven(big_prefs, b, LittleOf(Range(matches), b))
              /\ \/ ~LittleIsMatched(l)
                 \/ RankGiven(little_prefs, l, b)
                      < RankGiven(little_prefs, l, BigOf(Range(matches), l)) )
            => <<b, l>> \in Range(instabilities)

----------------------------------------------------------------------------
\* Role swap (app.py, "Littles as Proposers")

\* The keys of receivers_prefs, in dict order
ReceiverKeys == SelectSeq(ReceiverNames, LAMBDA r : r \in DOMAIN receivers_prefs)

\* gs_alt = GaleShapley(little_prefs, big_prefs); matches_alt = gs_alt.match();
\* matches_alt = [(little, big) for big, little in matches_alt]
matches_alt == Swapped(match(ReceiverKeys, receivers_prefs, proposers_prefs))

\* The partner matches_alt gives receiver r, None for no partner
AltPartnerOfReceiver(r) ==
    IF \E i \in DOMAIN matches_alt : matches_alt[i][2] = r
    THEN matches_alt[CHOOSE i \in DOMAIN matches_alt : matches_alt[i][2] = r][1]
    ELSE None

\* C11: for strict-total-order input, in the inverted result of the run with
\* the roles swapped every original receiver has a partner it ranks at least
\* as high as its partner in the original result (no partner ranking last).
C11_RoleSwapFavoursNewProposers ==
    (pc = "done" /\ StrictTotalOrderInput) =>
        \A r \in Receivers :
            PartnerPosition(receivers_prefs[r], AltPartnerOfReceiver(r))
              <= PartnerPosition(receivers_prefs[r], ResultPartnerOfReceiver(r))

\* match() has returned on an instance where the swapped run gives some
\* receiver a partner it ranks strictly higher
C11_Witness ==
    /\ pc = "done"
    /\ StrictTotalOrderInput
    /\ \E r \in Receivers :
          /\ ResultPartnerOfReceiver(r) # None
          /\ PartnerPosition(receivers_prefs[r], AltPartnerOfReceiver(r))
               < PartnerPosition(receivers_prefs[r], ResultPartnerOfReceiver(r))

----------------------------------------------------------------------------
\* Feasibility of the constraint systems

\* C12 as stated: for every strict-total-order instance the constraint system
\* of build_model is feasible, so solve never raises 'Not possible!'.
C12_SmpAlwaysFeasibleAsStated ==
    variant = "smp" => mpc # "failed"

\* C12, amended: for every strict-total-order instance with as many bigs as
\* littles the constraint system of build_model is feasible, so solve never
\* raises 'Not possible!'.
C12_SmpFeasibleOnEqualSides ==
    (variant = "smp" /\ Len(bigs) = Len(littles)) => mpc # "failed"

\* solve has returned a matching of two pairs or more for build_model on
\* equal sides
C12_Witness ==
    /\ variant = "smp"
    /\ mpc = "solved"
    /\ Len(bigs) = Len(littles)
    /\ Len(matches) >= 2

IsLatinSquare ==
    /\ variant = "smt"
    /\ bigs = ProposerNames
    /\ littles = ReceiverNames
    /\ big_prefs = LatinSquareBigPrefs
    /\ little_prefs = LatinSquareLittlePrefs

\* No big and little, not matched to each other in the perfect matching xs,
\* each give the other a smaller rank than they give their partner
NoBlockingPairByRank(xs) ==
    \A b \in Bigs, l \in Littles :
        <<b, l>> \notin xs =>
            ~ /\ big_prefs[b][l] < big_prefs[b][LittleOf(xs, b)]
              /\ little_prefs[l][b] < little_prefs[l][BigOf(xs, l)]

\* C13 as stated: on the 3x3 Latin square with cyclic strict preferences the
\* constraint system of build_model_smt has no solution and solve fails with
\* the error instead of returning a matching.
C13_LatinSquareInfeasibleAsStated ==
    (IsLatinSquare /\ mpc \notin {"new", "built"}) => mpc = "failed"

\* C13, amended: on the 3x3 Latin square with cyclic strict preferences the
\* constraint system of build_model_smt has solutions; solve does not fail,
\* and what it returns matches everyone exactly once, has no blocking pair,
\* and check_instabilities finds none in it.
C13_LatinSquareSolved ==
    IsLatinSquare =>
        /\ mpc # "failed"
        /\ mpc \in {"solved", "checked"} =>
              /\ IsPerfectMatching(Range(matches))
              /\ NoBlockingPairByRank(Range(matches))
        /\ mpc = "checked" => instabilities = <<>>

\* solve has returned three pairs on the Latin square, and check_instabilities
\* has run on them
C13_Witness ==
    /\ IsLatinSquare
    /\ mpc = "checked"
    /\ Len(matches) = 3

----------------------------------------------------------------------------
\* The sentinel rank of build_model_smti

\* C14 as stated: the sentinel for an unranked candidate is greater than the
\* candidate count of that side, so it compares strictly worse than every rank
\* in 1..(number of candidates) that a participant gives: such a rank is never
\* read as unranked, and build_model_smti never leaves a pair without
\* stability constraints when both rank each other with such ranks.
C14_SentinelWorseThanEveryRank ==
    (variant = "smti" /\ mpc = "built") =>
        \A b \in Bigs, l \in Littles :
            ( /\ MutuallyAcceptable(b, l)
              /\ big_prefs[b][l] \in 1..Len(littles)
              /\ little_prefs[l][b] \in 1..Len(bigs) )
            => /\ big_prefs[b][l] < max_rank_b(littles)
               /\ little_prefs[l][b] < max_rank_l(bigs)
               /\ ~SkipsPair(bigs, littles, big_prefs, little_prefs, b, l)

----------------------------------------------------------------------------
\* Properties of build_model_optimize

PartnersOfBig(xs, b) == {l \in Littles : <<b, l>> \in xs}
PartnersOfLittle(xs, l) == {b \in Bigs : <<b, l>> \in xs}

\* The 'max' of a participant, 1 when it has none
MaxOf(caps, p) == IF p \in DOMAIN caps THEN caps[p] ELSE 1

\* Every big and every little has at least one partner and at most its max
WithinCapacities(xs) ==
    /\ \A b \in Bigs : Cardinality(PartnersOfBig(xs, b)) \in 1..MaxOf(big_max, b)
    /\ \A l \in Littles : Cardinality(PartnersOfLittle(xs, l)) \in 1..MaxOf(little_max, l)

\* Every big and every little has exactly one partner
ExactlyOnePartner(xs) ==
    /\ \A b \in Bigs : Cardinality(PartnersOfBig(xs, b)) = 1
    /\ \A l \in Littles : Cardinality(PartnersOfLittle(xs, l)) = 1

\* Some big and little that are not paired in xs are each ahead, in the
\* other's list, of all the partners the other has in xs
HasBlockingPair(xs) ==
    \E b \in Bigs, l \in Littles :
        /\ <<b, l>> \notin xs
        /\ l \in Range(big_prefs[b]) /\ b \in Range(little_prefs[l])
        /\ \A l2 \in PartnersOfBig(xs, b) :
              l2 \in Range(big_prefs[b])
                /\ Position(big_prefs[b], l) < Position(big_prefs[b], l2)
        /\ \A b2 \in PartnersOfLittle(xs, l) :
              b2 \in Range(little_prefs[l])
                /\ Position(little_prefs[l], b) < Position(little_prefs[l], b2)

\* C15: an assignment is a solution of the constraint system of
\* build_model_optimize if and only if, without enforce_exactly_one, every
\* participant has at least 1 and at most its 'max' (default 1) pairs, and
\* with enforce_exactly_one, every participant has exactly one pair whatever
\* its 'max'; stability plays no part.
C15_OptimizeFeasibleIffWithinCapacities ==
    (variant = "optimize" /\ mpc = "built") =>
        \A xs \in SUBSET Range(x) :
            Feasible(xs) <=>
                IF enforce_exactly_one THEN ExactlyOnePartner(xs) ELSE WithinCapacities(xs)

\* build_model_optimize has run without enforce_exactly_one on an instance
\* where a big with max 2 takes two littles in a solution, and a solution has
\* a blocking pair
C15_Witness ==
    /\ variant = "optimize"
    /\ mpc = "built"
    /\ ~enforce_exactly_one
    /\ \E xs \in SUBSET Range(x) :
          /\ Feasible(xs)
          /\ \E b \in Bigs : Cardinality(PartnersOfBig(xs, b)) = 2
    /\ \E xs \in SUBSET Range(x) : Feasible(xs) /\ HasBlockingPair(xs)

\* The quality of candidate c in a list over count candidates: count for the
\* first place, one less for each place after it, zero for a candidate the
\* list leaves out
RankQuality(list, c, count) ==
    IF c \in Range(list) THEN count - (Position(list, c) - 1) ELSE 0

\* C16: the score of a pair (b, l) is weight * q_b + (1 - weight) * q_l, with
\* q the candidate count of that side for the best rank, zero for an unranked
\* candidate and one less per place in between; so with weight 1 no score
\* depends on the littles' preferences, and with weight 0 none depends on the
\* bigs' preferences.
C16_ScoreIsWeightedRankQuality ==
    (variant = "optimize" /\ mpc = "built") =>
        /\ \A b \in Bigs, l \in Littles :
              scores[<<b, l>>] =
                 preference_weight * RankQuality(big_prefs[b], l, Len(littles))
                   + (WeightSteps - preference_weight)
                       * RankQuality(little_prefs[l], b, Len(bigs))
        /\ preference_weight = WeightSteps =>
              \A lp \in [Littles -> PartialLists(Bigs)] :
                  Scores(bigs, littles, big_prefs, lp, preference_weight) = scores
        /\ preference_weight = 0 =>
              \A bp \in [Bigs -> PartialLists(Littles)] :
                  Scores(bigs, littles, bp, little_prefs, preference_weight) = scores

\* build_model_optimize has run with weight 1 on an instance where a big puts
\* first a little that leaves it out, and leaves out a little that puts it
\* first: the first pair has the full score, the second has none
C16_Witness ==
    /\ variant = "optimize"
    /\ mpc = "built"
    /\ preference_weight = WeightSteps
    /\ \E b \in Bigs, l \in Littles :
          /\ big_prefs[b] # <<>> /\ big_prefs[b][1] = l
          /\ b \notin Range(little_prefs[l])
          /\ scores[<<b, l>>] = WeightSteps * Len(littles)
    /\ \E b \in Bigs, l \in Littles :
          /\ l \notin Range(big_prefs[b])
          /\ little_prefs[l] # <<>> /\ little_prefs[l][1] = b
          /\ scores[<<b, l>>] = 0

----------------------------------------------------------------------------
\* Incomplete preference data

\* Some big's data lacks a little, or some little's data lacks a big
SomeCandidateMissing ==
    \E b \in Bigs, l \in Littles :
        IF variant = "smp"
        THEN l \notin Range(big_prefs[b]) \/ b \notin Range(little_prefs[l])
        ELSE l \notin DOMAIN big_prefs[b] \/ b \notin DOMAIN little_prefs[l]

\* C17: with a candidate missing from a participant's preference data,
\* build_model and build_model_smt end with an error and no model is solved
\* and no matching returned; build_model_smti accepts the data and reads the
\* missing candidate's rank as the sentinel.
C17_MissingCandidateIsErrorUnlessPartial ==
    SomeCandidateMissing =>
        /\ variant \in {"smp", "smt"} =>
              /\ mpc \in {"new", "error"}
              /\ matches = <<>>
        /\ variant = "smti" =>
              /\ mpc # "error"
              /\ \A b \in Bigs, l \in Littles :
                    /\ l \notin DOMAIN big_prefs[b] =>
                          RankOr(big_prefs, b, l, max_rank_b(littles)) = max_rank_b(littles)
                    /\ b \notin DOMAIN little_prefs[l] =>
                          RankOr(little_prefs, l, b, max_rank_l(bigs)) = max_rank_l(bigs)

\* build_model or build_model_smt has ended with an error on data where one
\* participant lacks one candidate and every other entry is there
C17_Witness ==
    /\ variant \in {"smp", "smt"}
    /\ mpc = "error"
    /\ Len(bigs) = 2 /\ Len(littles) = 2
    /\ \E b \in Bigs, l \in Littles :
          /\ IF variant = "smp" THEN l \notin Range(big_prefs[b])
                                ELSE l \notin DOMAIN big_prefs[b]
          /\ \A b2 \in Bigs, l2 \in Littles :
                /\ <<b2, l2>> # <<b, l>> =>
                      IF variant = "smp" THEN l2 \in Range(big_prefs[b2])
                                         ELSE l2 \in DOMAIN big_prefs[b2]
                /\ IF variant = "smp" THEN b2 \in Range(little_prefs[l2])
                                      ELSE b2 \in DOMAIN little_prefs[l2]

\* ---------------------------------------------------------------------------
\* Invalid input
\* ---------------------------------------------------------------------------

HasDuplicate(s) == Cardinality(Range(s)) < Len(s)

\* Some preference list handed to GaleShapley names a candidate twice
DuplicateInLists ==
    \/ \E p \in DOMAIN proposers_prefs : HasDuplicate(proposers_prefs[p])
    \/ \E r \in DOMAIN receivers_prefs : HasDuplicate(receivers_prefs[r])

\* Some capacity handed to build_model_optimize is 0 or less
CapacityNotPositive ==
    /\ variant = "optimize"
    /\ \/ \E b \in DOMAIN big_max : big_max[b] <= 0
       \/ \E l \in DOMAIN little_max : little_max[l] <= 0

\* C18: invalid input is rejected before anything runs.  On lists with a
\* duplicate no step of the deferred-acceptance loop has run and match returns
\* nothing; on a capacity of 0 or less no constraint is built, the matcher
\* stays new or reports an error, and no matching is returned.
C18_InvalidInputRejectedEagerly ==
    /\ DuplicateInLists =>
          /\ current_matches = <<>>
          /\ \A p \in DOMAIN next_proposals : next_proposals[p] = 0
          /\ pc # "done"
          /\ result = <<>>
    /\ CapacityNotPositive =>
          /\ mpc \in {"new", "error"}
          /\ x = <<>>
          /\ matches = <<>>

\* ---------------------------------------------------------------------------
\* Complete symmetric lists
\* ---------------------------------------------------------------------------

CompleteSymmetricLists ==
    /\ StrictTotalOrderInput
    /\ Len(proposers) = Cardinality(Receivers)

\* C19: on complete symmetric lists the proposer that the loop is about to
\* take from the queue never has an exhausted cursor, and the list that match
\* returns pairs every proposer and every receiver exactly once.
C19_NoExhaustionOnCompleteSymmetricLists ==
    CompleteSymmetricLists =>
        /\ (pc = "loop" /\ free_proposers # <<>>) =>
              ~Exhausted(proposers_prefs, next_proposals, free_proposers[1])
        /\ pc = "done" =>
              /\ Len(result) = Len(proposers)
              /\ \A p \in Range(proposers) :
                    Cardinality({i \in DOMAIN result : result[i][1] = p}) = 1
              /\ \A r \in Receivers :
                    Cardinality({i \in DOMAIN result : result[i][2] = r}) = 1

\* Two or more on each side, and some proposer was turned down or displaced
\* and went on to its next choice
C19_Witness ==
    /\ CompleteSymmetricLists
    /\ pc = "done"
    /\ Len(proposers) >= 2
    /\ Len(result) = Len(proposers)
    /\ \E p \in Range(proposers) : next_proposals[p] >= 2

\* ---------------------------------------------------------------------------
\* Reported pairs and the given matching
\* ---------------------------------------------------------------------------

\* C20: check_instabilities never reports a pair that is in the matching it
\* was given, whether the matching is one-to-one or a capacity matching in
\* which some participant has more than one partner.
C20_ReportedPairsAreNotMatched ==
    mpc = "checked" =>
        \A i \in DOMAIN instabilities : instabilities[i] \notin Range(matches)

\* ---------------------------------------------------------------------------
\* The loop's bookkeeping
\* ---------------------------------------------------------------------------

HeldProposers == {current_matches[i][2] : i \in DOMAIN current_matches}

\* The state between two iterations of the while loop of match()
BookkeepingConsistent ==
    /\ \A i, j \in DOMAIN current_matches :
          i # j => /\ current_matches[i][1] # current_matches[j][1]
                   /\ current_matches[i][2] # current_matches[j][2]
    /\ \A i \in DOMAIN current_matches :
          /\ current_matches[i][1] \in Receivers
          /\ current_matches[i][2] \in Range(proposers)
    /\ \A i, j \in DOMAIN free_proposers : i # j => free_proposers[i] # free_proposers[j]
    /\ Range(free_proposers) \cap HeldProposers = {}
    /\ \A p \in Range(proposers) :
          p \notin Range(free_proposers) \cup HeldProposers =>
              next_proposals[p] >= Len(proposers_prefs[p])

\* One iteration: a receiver that holds a proposer still holds one, and a
\* different one only if it comes earlier in the receiver's list
ReceiversOnlyTradeUp ==
    \A r \in Receivers :
        DictHas(current_matches, r) =>
            /\ DictHas(current_matches', r)
            /\ DictGet(current_matches', r) # DictGet(current_matches, r) =>
                  Position(receivers_prefs[r], DictGet(current_matches', r))
                      < Position(receivers_prefs[r], DictGet(current_matches, r))

\* C21: on duplicate-free lists, between any two iterations of the loop of
\* match() the held pairs are a partial one-to-one matching, no proposer is
\* queued twice or both queued and held, every proposer that is neither
\* queued nor held has exhausted its list, and across every iteration a
\* receiver that holds a proposer stays matched and changes it only for one
\* it ranks strictly higher.
C21_LoopBookkeepingInvariant ==
    /\ [](StrictTotalOrderInput => BookkeepingConsistent)
    /\ [][StrictTotalOrderInput => ReceiversOnlyTradeUp]_vars

\* The loop is still running after a receiver has traded up: the proposer that
\* proposed first was held by its first choice, which now holds another
\* proposer, and it is back in the queue
C21_Witness ==
    /\ StrictTotalOrderInput
    /\ pc = "loop"
    /\ Len(proposers) >= 2
    /\ proposers[1] \in Range(free_proposers)
    /\ next_proposals[proposers[1]] = 1
    /\ DictHas(current_matches, proposers_prefs[proposers[1]][1])
    /\ DictGet(current_matches, proposers_prefs[proposers[1]][1]) # proposers[1]
====
